---- MODULE Spec2Model ----
(***************************************************************************)
(* A model of tgBulletUnidirectionalCompressionSpring (NTRT core): the     *)
(* per-timestep force law of a unidirectional compression spring-damper    *)
(* between two anchored rigid bodies.                                      *)
(*                                                                         *)
(* The C++ doubles are modelled as exact rationals <<n, d>> in lowest      *)
(* terms with d > 0.  The pair <<0, 0>> stands for the not-a-number that   *)
(* the division 0.0 / 0.0 produces; it propagates through arithmetic and   *)
(* makes every ordered comparison false, as in IEEE-754.                   *)
(***************************************************************************)
EXTENDS Integers, Sequences, FiniteSets

(***************************************************************************)
(* Bounds of the model.                                                    *)
(***************************************************************************)
\* anchor 2 is placed at integer heights -MaxCoord .. MaxCoord (and at the
\* fractional heights of ExtraHeights below)
MaxCoord == 1
\* the number of onSetup and onStep calls made on a controller
MaxCalls == 4

(***************************************************************************)
(* double arithmetic                                                       *)
(***************************************************************************)
Abs(n) == IF n < 0 THEN -n ELSE n

RECURSIVE GCD(_, _)
GCD(a, b) == IF b = 0 THEN a ELSE GCD(b, a % b)

\* the double with value n/d; d = 0 gives the not-a-number
Rat(n, d) ==
    IF d = 0 THEN <<0, 0>>
    ELSE LET g == GCD(Abs(n), Abs(d))
             s == IF d < 0 THEN -1 ELSE 1
         IN  <<(s * n) \div g, (s * d) \div g>>

Zero == Rat(0, 1)
NaN == Rat(0, 0)
IsNaN(a) == a[2] = 0

RAdd(a, b) == Rat(a[1] * b[2] + b[1] * a[2], a[2] * b[2])
RNeg(a) == Rat(-a[1], a[2])
RSub(a, b) == RAdd(a, RNeg(b))
RMul(a, b) == Rat(a[1] * b[1], a[2] * b[2])
RDiv(a, b) == Rat(a[1] * b[2], a[2] * b[1])
RLess(a, b) == ~IsNaN(a) /\ ~IsNaN(b) /\ a[1] * b[2] < b[1] * a[2]
RLeq(a, b) == ~IsNaN(a) /\ ~IsNaN(b) /\ a[1] * b[2] <= b[1] * a[2]

\* largest r with r * r <= n
ISqrt(n) == CHOOSE r \in 0..n : r * r <= n /\ n < (r + 1) * (r + 1)
\* square root; exact on the squares of rationals, which is all the model feeds it
RSqrt(a) == IF IsNaN(a) THEN NaN ELSE Rat(ISqrt(a[1]), ISqrt(a[2]))

(***************************************************************************)
(* btVector3                                                               *)
(***************************************************************************)
Vec(x, y, z) == <<x, y, z>>
ZeroVec == Vec(Zero, Zero, Zero)
VSub(u, v) == Vec(RSub(u[1], v[1]), RSub(u[2], v[2]), RSub(u[3], v[3]))
VNeg(u) == Vec(RNeg(u[1]), RNeg(u[2]), RNeg(u[3]))
VScale(u, s) == Vec(RMul(u[1], s), RMul(u[2], s), RMul(u[3], s))
VDivide(u, s) == Vec(RDiv(u[1], s), RDiv(u[2], s), RDiv(u[3], s))
Dot(u, v) == RAdd(RAdd(RMul(u[1], v[1]), RMul(u[2], v[2])), RMul(u[3], v[3]))
VLength(u) == RSqrt(Dot(u, u))

(***************************************************************************)
(* Inputs                                                                  *)
(***************************************************************************)
\* stiffness, damping and rest length of a valid construction
CoefKs == {Rat(1, 1), Rat(100, 1)}
CoefDs == {Zero, Rat(5, 1)}
RestLengths == {Zero, Rat(1, 1)}
\* unit direction vectors: the y axis, and one oblique to it
Directions == {Vec(Zero, Rat(1, 1), Zero), Vec(Rat(3, 5), Rat(4, 5), Zero)}
\* timesteps handed to step: negative, zero and positive ones
Timesteps == {Rat(-1, 2), Zero, Rat(1, 100), Rat(1, 1)}
\* heights of anchor 2 above anchor 1, which stays at the origin
ExtraHeights == {Rat(7, 10), Rat(4, 5), Rat(3, 2)}
Heights == {Rat(i, 1) : i \in (-MaxCoord)..MaxCoord} \cup ExtraHeights
Placements == {[a \in {1, 2} |-> IF a = 1 THEN ZeroVec ELSE Vec(Zero, h, Zero)] :
                   h \in Heights}

Bodies == {1, 2}
\* the null anchor pointer, and the null btVector3 pointer
NULL == 0
NullVec == << >>

VARIABLES
    m_anchors,            \* the anchors handed to the constructor
    m_isFreeEndAttached,
    m_coefK,
    m_coefD,
    m_restLength,
    m_direction,
    m_prevLength,
    m_velocity,
    m_dampingForce,
    worldPos,             \* physics engine: world position of each anchor
    active,               \* physics engine: is the body awake
    calls,                \* engine calls made by the latest step call, in order
    asserts,              \* assertions the latest step call evaluated, each with
                          \* the number of engine calls made before it
    last,                 \* how the latest operation ended
    seen                  \* what the latest step call with dt > 0 was given and saw

\* v4TensionController and the model it observes
VARIABLES
    m_totalTime,
    initPos,
    endEffector,          \* the subject's rods tagged "endeffector": their centres of mass
    printed,              \* the line the latest onStep wrote to standard output
    notified,             \* every onSetup and onStep call made so far, in order
    onLast                \* how the latest controller operation ended

controller == <<m_totalTime, initPos, endEffector, printed, notified, onLast>>

spring == <<m_anchors, m_isFreeEndAttached, m_coefK, m_coefD, m_restLength,
            m_direction, m_prevLength, m_velocity, m_dampingForce, worldPos,
            active, calls, asserts, last, seen>>

vars == <<m_anchors, m_isFreeEndAttached, m_coefK, m_coefD, m_restLength,
          m_direction, m_prevLength, m_velocity, m_dampingForce, worldPos,
          active, calls, asserts, last, seen, controller>>

params == <<m_anchors, m_isFreeEndAttached, m_coefK, m_coefD, m_restLength,
            m_direction>>

(***************************************************************************)
(* The anchors and the base spring (tgBulletSpringCableAnchor and          *)
(* tgBulletCompressionSpring)                                              *)
(***************************************************************************)
anchor1 == Head(m_anchors)
anchor2 == m_anchors[Len(m_anchors)]
attachedBody(a) == a
getWorldPosition(a) == worldPos[a]
\* where the anchor sits on its body, in the body's frame
getRelativePosition(a) == IF a = 1 THEN Vec(Zero, Rat(1, 2), Zero)
                          ELSE Vec(Zero, Rat(-1, 2), Zero)

\* the length the base constructor records as the previous one
InitialPrevLength == m_restLength
getRestLength == m_restLength
getCoefK == m_coefK
getCoefD == m_coefD
isFreeEndAttached == m_isFreeEndAttached

\* the straight-line distance between the two anchors
getCurrentAnchorDistance ==
    VLength(VSub(getWorldPosition(anchor2), getWorldPosition(anchor1)))

\* the unit vector from anchor 1 to anchor 2
getAnchorDirectionUnitVector ==
    LET dist == VSub(getWorldPosition(anchor2), getWorldPosition(anchor1))
    IN  VDivide(dist, VLength(dist))

\* The axial distance of the specification (currentAxialDistance): the vector
\* from anchor 1 to anchor 2 projected on the direction, signed. The program
\* computes it nowhere: the function written for it in the source
\* (getCurrentAnchorDistanceAlongDirection) is ill-formed, multiplies the vector
\* by the pointer m_direction, and is called by nothing.
AxialDistance ==
    LET dist == VSub(getWorldPosition(anchor2), getWorldPosition(anchor1))
    IN  Dot(dist, m_direction)

(***************************************************************************)
(* tgBulletUnidirectionalCompressionSpring                                 *)
(***************************************************************************)

\* the free-end policy forgotten: the length always follows the anchors
getCurrentSpringLength_NoSlack == getCurrentAnchorDistance

\* the anchor distance compared with the previous length, not the rest length
getCurrentSpringLength_AgainstPrevious ==
    LET currAnchorDist == getCurrentAnchorDistance
    IN  IF isFreeEndAttached THEN currAnchorDist
        ELSE IF RLess(currAnchorDist, m_prevLength) THEN currAnchorDist
        ELSE getRestLength

getCurrentSpringLength ==
    LET currAnchorDist == getCurrentAnchorDistance
    IN  IF isFreeEndAttached THEN currAnchorDist
        ELSE IF RLess(currAnchorDist, getRestLength) THEN currAnchorDist
        ELSE getRestLength

\* the sign of the spring law dropped
getSpringForce_Unsigned == RMul(getCoefK, RSub(getCurrentSpringLength, getRestLength))

getSpringForce == RMul(RNeg(getCoefK), RSub(getCurrentSpringLength, getRestLength))

\* assert(springForce >= 0.0) of getSpringForce, made when the free end is not attached
SpringForceAssertion == isFreeEndAttached \/ RLeq(Zero, getSpringForce)

invariantWith(prevLength) ==
    /\ RLess(Zero, m_coefK)
    /\ RLeq(Zero, m_coefD)
    /\ RLeq(Zero, prevLength)
    /\ RLeq(Zero, m_restLength)
    /\ anchor1 # NULL
    /\ anchor2 # NULL
    /\ m_direction # NullVec
    /\ Len(m_anchors) >= 2

invariant == invariantWith(m_prevLength)

\* calculateAndApplyForce, value by value
CurrLength == getCurrentSpringLength
\* the difference taken the wrong way round
ChangeInDeltaX_Reversed == RSub(m_prevLength, CurrLength)
ChangeInDeltaX == RSub(CurrLength, m_prevLength)
Velocity(dt) == RDiv(ChangeInDeltaX, dt)
DampingForce(dt) == RMul(RNeg(getCoefD), Velocity(dt))
Magnitude(dt) == RAdd(getSpringForce, DampingForce(dt))
\* the force laid along the fixed direction vector, not along the anchor line
Force_AlongDirection(dt) == VScale(m_direction, Magnitude(dt))
Force(dt) == VScale(getAnchorDirectionUnitVector, Magnitude(dt))
\* the signed distance along m_direction stored in place of the spring length
StoredLength_Axial == AxialDistance
\* the raw anchor separation stored in place of the spring length
StoredLength_Raw == getCurrentAnchorDistance
StoredLength == CurrLength
Impulse1(dt) == VScale(Force(dt), dt)
\* the minus sign of the second impulse forgotten
Impulse2_SameSign(dt) == VScale(Force(dt), dt)
Impulse2(dt) == VScale(VNeg(Force(dt)), dt)
\* body 2 struck before it is woken
EngineCalls_ImpulseFirst(dt) ==
    << [op |-> "activate", body |-> attachedBody(anchor1)],
       [op |-> "applyImpulse", body |-> attachedBody(anchor1),
        impulse |-> Impulse1(dt), point |-> getRelativePosition(anchor1)],
       [op |-> "applyImpulse", body |-> attachedBody(anchor2),
        impulse |-> Impulse2(dt), point |-> getRelativePosition(anchor2)],
       [op |-> "activate", body |-> attachedBody(anchor2)] >>
EngineCalls(dt) ==
    << [op |-> "activate", body |-> attachedBody(anchor1)],
       [op |-> "applyImpulse", body |-> attachedBody(anchor1),
        impulse |-> Impulse1(dt), point |-> getRelativePosition(anchor1)],
       [op |-> "activate", body |-> attachedBody(anchor2)],
       [op |-> "applyImpulse", body |-> attachedBody(anchor2),
        impulse |-> Impulse2(dt), point |-> getRelativePosition(anchor2)] >>

calculateAndApplyForce(dt) ==
    /\ m_velocity' = Velocity(dt)
    /\ m_dampingForce' = DampingForce(dt)
    /\ m_prevLength' = StoredLength
    /\ calls' = EngineCalls(dt)
    /\ active' = [b \in Bodies |->
                     IF \E i \in 1..Len(calls') :
                            calls'[i].op = "activate" /\ calls'[i].body = b
                     THEN TRUE ELSE active[b]]

\* the guards of step
\* dt = 0 let through
DtIsRejected_Strict(dt) == RLess(dt, Zero)
DtIsRejected(dt) == RLeq(dt, Zero)
\* a length of exactly zero let through
LengthIsFatal_Strict == RLess(getCurrentSpringLength, Zero)
LengthIsFatal == RLeq(getCurrentSpringLength, Zero)

(***************************************************************************)
(* Construction                                                            *)
(***************************************************************************)
\* v4TensionController's constructor
ControllerConstructed ==
    /\ m_totalTime = Zero
    /\ initPos = ZeroVec
    /\ printed = << >>
    /\ notified = << >>
    /\ onLast = "constructed"

Init ==
    /\ ControllerConstructed
    /\ endEffector = << >>
    /\ m_anchors = <<1, 2>>
    /\ m_isFreeEndAttached \in BOOLEAN
    /\ m_coefK \in CoefKs
    /\ m_coefD \in CoefDs
    /\ m_restLength \in RestLengths
    /\ m_direction \in Directions
    /\ m_prevLength = InitialPrevLength
    /\ m_velocity = Zero
    /\ m_dampingForce = Zero
    /\ worldPos \in Placements
    /\ active = [b \in Bodies |-> TRUE]
    /\ calls = << >>
    /\ asserts = << >>
    /\ last = "constructed"
    /\ seen = [stepped |-> FALSE, completed |-> FALSE, dt |-> Zero, length |-> Zero,
               force |-> Zero, pos |-> worldPos]

(***************************************************************************)
(* step(dt)                                                                *)
(***************************************************************************)
\* what a step call leaves alone: it assigns m_velocity, m_dampingForce and
\* m_prevLength only
\* the stored length written to m_restLength as well
StepFrame_RestLengthOverwritten ==
    /\ UNCHANGED <<m_anchors, m_isFreeEndAttached, m_coefK, m_coefD, m_direction,
                   worldPos>>
    /\ m_restLength' = CurrLength
StepFrame == UNCHANGED <<params, worldPos>>

\* the assertions of a step call that got past the dt check: the one of
\* getSpringForce, evaluated before any engine call when the free end is not
\* attached, and assert(invariant()), reached only when the length check passed
SpringForceAsserts ==
    IF isFreeEndAttached THEN << >> ELSE << [check |-> "springForce", after |-> 0] >>
InvariantAsserts(n) ==
    IF LengthIsFatal THEN << >> ELSE << [check |-> "invariant", after |-> n] >>

step(dt) ==
    /\ StepFrame
    /\ UNCHANGED controller
    /\ IF DtIsRejected(dt)
       THEN /\ last' = "invalid_argument"
            /\ calls' = << >>
            /\ asserts' = << >>
            /\ UNCHANGED <<m_prevLength, m_velocity, m_dampingForce, active, seen>>
       ELSE IF ~SpringForceAssertion
       THEN /\ last' = "assertion_failed"
            /\ calls' = << >>
            /\ asserts' = SpringForceAsserts
            /\ UNCHANGED <<m_prevLength, m_velocity, m_dampingForce, active, seen>>
       ELSE /\ calculateAndApplyForce(dt)
            /\ asserts' = SpringForceAsserts \o InvariantAsserts(Len(calls'))
            /\ last' = IF LengthIsFatal THEN "runtime_error"
                       ELSE IF ~invariantWith(m_prevLength') THEN "assertion_failed"
                       ELSE "ok"
            /\ seen' = [stepped |-> TRUE, completed |-> (last' = "ok"), dt |-> dt,
                        length |-> getCurrentSpringLength, force |-> getSpringForce,
                        pos |-> worldPos]

Step == \E dt \in Timesteps : step(dt)

(***************************************************************************)
(* The physics engine, between two step calls                              *)
(***************************************************************************)
\* a simulation tick: the impulses are integrated, the bodies move and the
\* anchors with them
MoveAnchors ==
    /\ \E p \in Placements : p # worldPos /\ worldPos' = p
    /\ calls' = << >>
    /\ asserts' = << >>
    /\ last' = "engine"
    /\ UNCHANGED <<params, m_prevLength, m_velocity, m_dampingForce, active, seen,
                   controller>>

\* the bodies have come to rest and are put to sleep
Deactivate ==
    /\ \E b \in Bodies : active[b]
    /\ active' = [b \in Bodies |-> FALSE]
    /\ calls' = << >>
    /\ asserts' = << >>
    /\ last' = "engine"
    /\ UNCHANGED <<params, m_prevLength, m_velocity, m_dampingForce, worldPos, seen,
                   controller>>

Next == Step \/ MoveAnchors \/ Deactivate

Spec == Init /\ [][Next]_vars

(***************************************************************************)
(* v4TensionController                                                     *)
(***************************************************************************)
\* where the end effector rod's centre of mass can be
CentersOfMass == {ZeroVec, Vec(Zero, Rat(1, 1), Zero)}
\* the subject has no rod tagged "endeffector", or one
Subjects == {<< >>} \cup {<<c>> : c \in CentersOfMass}

\* endEffectorCOM: assert(!endEffector.empty()), then endEffector[0]'s centre
\* of mass. With no such rod the assertion aborts the process; where the
\* assertion is compiled out, element 0 of an empty vector is read and the
\* call either crashes or returns whatever that read yields.
EndEffectorAssertion == endEffector # << >>
EndEffectorCOMs ==
    IF EndEffectorAssertion THEN {endEffector[1]}
    ELSE CentersOfMass \cup {Vec(NaN, NaN, NaN)}

\* a spring that is constructed and never stepped
SpringConstructed ==
    /\ m_anchors = <<1, 2>>
    /\ m_isFreeEndAttached = TRUE
    /\ m_coefK = Rat(1, 1)
    /\ m_coefD = Zero
    /\ m_restLength = Rat(1, 1)
    /\ m_direction = Vec(Zero, Rat(1, 1), Zero)
    /\ m_prevLength = InitialPrevLength
    /\ m_velocity = Zero
    /\ m_dampingForce = Zero
    /\ worldPos = [a \in {1, 2} |-> IF a = 1 THEN ZeroVec
                                     ELSE Vec(Zero, Rat(1, 1), Zero)]
    /\ active = [b \in Bodies |-> TRUE]
    /\ calls = << >>
    /\ asserts = << >>
    /\ last = "constructed"
    /\ seen = [stepped |-> FALSE, completed |-> FALSE, dt |-> Zero, length |-> Zero,
               force |-> Zero, pos |-> worldPos]

ControllerInit ==
    /\ ControllerConstructed
    /\ endEffector \in Subjects
    /\ SpringConstructed

\* the process has not been aborted and the call bound is not reached
CanBeNotified ==
    /\ onLast \notin {"setup_aborted", "step_aborted"}
    /\ Len(notified) < MaxCalls

onSetup ==
    /\ CanBeNotified
    /\ notified' = Append(notified, [op |-> "onSetup", dt |-> Zero])
    /\ \/ /\ ~EndEffectorAssertion
          /\ onLast' = "setup_aborted"
          /\ UNCHANGED <<m_totalTime, initPos>>
       \/ /\ \E com \in EndEffectorCOMs : initPos' = com
          /\ m_totalTime' = Zero
          /\ onLast' = "setup"
    /\ UNCHANGED <<endEffector, printed, spring>>

OnStepRejects(dt) == RLeq(dt, Zero)
\* the total time replaced by dt
TotalTimeAfter_Overwritten(dt) == dt
TotalTimeAfter(dt) == RAdd(m_totalTime, dt)

onStep(dt) ==
    /\ CanBeNotified
    /\ notified' = Append(notified, [op |-> "onStep", dt |-> dt])
    /\ IF OnStepRejects(dt)
       THEN /\ onLast' = "invalid_argument"
            /\ UNCHANGED <<m_totalTime, printed>>
       ELSE /\ m_totalTime' = TotalTimeAfter(dt)
            /\ \/ /\ ~EndEffectorAssertion
                  /\ onLast' = "step_aborted"
                  /\ UNCHANGED printed
               \/ /\ \E ee \in EndEffectorCOMs : printed' = <<m_totalTime', ee>>
                  /\ onLast' = "ok"
    /\ UNCHANGED <<initPos, endEffector, spring>>

OnStep == \E dt \in Timesteps : onStep(dt)

\* a simulation tick moves the end effector rod
MoveEndEffector ==
    /\ onLast \notin {"setup_aborted", "step_aborted"}
    /\ EndEffectorAssertion
    /\ \E c \in CentersOfMass : c # endEffector[1] /\ endEffector' = <<c>>
    /\ onLast' = "engine"
    /\ UNCHANGED <<m_totalTime, initPos, printed, notified, spring>>

ControllerNext == onSetup \/ OnStep \/ MoveEndEffector

ControllerSpec == ControllerInit /\ [][ControllerNext]_vars

(***************************************************************************)
(* Properties                                                              *)
(***************************************************************************)
VAdd(u, v) == Vec(RAdd(u[1], v[1]), RAdd(u[2], v[2]), RAdd(u[3], v[3]))
VIsFinite(u) == ~IsNaN(u[1]) /\ ~IsNaN(u[2]) /\ ~IsNaN(u[3])
\* the impulses the latest step call applied to body b
ImpulsesOn(b) ==
    {i \in 1..Len(calls) : calls[i].op = "applyImpulse" /\ calls[i].body = b}
\* the latest operation was a step call that got past the dt check
SteppedNow == last \in {"ok", "runtime_error"}

\* C1: a step call with dt <= 0 ends with the invalid-argument error and has
\* no effect: it makes no engine call (no activation, no impulse), leaves the
\* bodies' activation as it was and keeps previousLength, velocity and
\* dampingForce.
C1_InvalidDtHasNoEffect ==
    [][\A dt \in Timesteps :
          (step(dt) /\ RLeq(dt, Zero)) =>
              /\ last' = "invalid_argument"
              /\ calls' = << >>
              /\ UNCHANGED <<active, m_prevLength, m_velocity, m_dampingForce>>]_vars

\* a dt <= 0 call was made on a spring that has stepped before, with body 1 asleep
C1_Witness ==
    /\ last = "invalid_argument"
    /\ seen.stepped
    /\ ~active[1]
    /\ m_velocity # Zero

\* C2: the class invariant holds after construction and after every step call
\* that does not end in the fatal-length error.
C2_InvariantAfterConstructionAndStep ==
    last \in {"constructed", "ok", "invalid_argument", "assertion_failed"} => invariant

\* a step completed after the anchors had moved away from the rest position
C2_Witness ==
    /\ last = "ok"
    /\ m_prevLength # m_restLength
    /\ AxialDistance # getCurrentSpringLength

\* C3 as claimed: a step call with dt > 0 applies exactly one impulse to body 1
\* and exactly one to body 2, and the two sum to the zero vector, for every
\* geometry.
C3_ImpulsesSumToZero ==
    SteppedNow =>
        /\ Cardinality(ImpulsesOn(1)) = 1
        /\ Cardinality(ImpulsesOn(2)) = 1
        /\ \A i \in ImpulsesOn(1) : \A j \in ImpulsesOn(2) :
              VAdd(calls[i].impulse, calls[j].impulse) = ZeroVec

\* C3, amended: a step call with dt > 0 applies exactly one impulse to body 1
\* and exactly one to body 2. Where the anchors are apart both impulses are
\* numbers, the second is the negative of the first and they sum to the zero
\* vector. Where the anchors coincide neither impulse is a number (the unit
\* vector is 0/0), no sum is zero, and the step ends in the fatal-length error.
C3_ImpulsesAreOpposite ==
    SteppedNow =>
        /\ Cardinality(ImpulsesOn(1)) = 1
        /\ Cardinality(ImpulsesOn(2)) = 1
        /\ \A i \in ImpulsesOn(1) : \A j \in ImpulsesOn(2) :
              IF getCurrentAnchorDistance # Zero
              THEN /\ VIsFinite(calls[i].impulse)
                   /\ VIsFinite(calls[j].impulse)
                   /\ calls[j].impulse = VNeg(calls[i].impulse)
                   /\ VAdd(calls[i].impulse, calls[j].impulse) = ZeroVec
              ELSE /\ \A c \in 1..3 : IsNaN(calls[i].impulse[c])
                   /\ \A c \in 1..3 : IsNaN(calls[j].impulse[c])
                   /\ last = "runtime_error"

\* a step applied a non-zero impulse
C3_Witness ==
    /\ last = "ok"
    /\ getCurrentAnchorDistance # Zero
    /\ \E i \in ImpulsesOn(1) :
          VIsFinite(calls[i].impulse) /\ calls[i].impulse # ZeroVec

\* C4: with the free end attached, the spring length is the anchor separation
\* projected onto the direction vector.
C4_FreeLengthIsAxialDistance ==
    m_isFreeEndAttached => getCurrentSpringLength = AxialDistance

\* C5: with the free end not attached and the axial distance at or beyond the
\* rest length, the spring length is the rest length and the spring force is 0.
C5_SlackAtOrBeyondRestLength ==
    (~m_isFreeEndAttached /\ RLeq(m_restLength, AxialDistance)) =>
        /\ getCurrentSpringLength = m_restLength
        /\ getSpringForce = Zero

\* a damped fixed-end spring stepped with its anchors beyond the rest length
C5_Witness ==
    /\ ~m_isFreeEndAttached
    /\ RLess(m_restLength, AxialDistance)
    /\ m_coefD # Zero
    /\ last = "ok"

\* C6: with the free end not attached and the axial distance below the rest
\* length, the spring length is the axial distance and the spring force is
\* k * (restLength - axial distance), which is positive.
C6_CompressedLengthIsAxialDistance ==
    (~m_isFreeEndAttached /\ RLess(AxialDistance, m_restLength)) =>
        /\ getCurrentSpringLength = AxialDistance
        /\ getSpringForce = RMul(m_coefK, RSub(m_restLength, AxialDistance))
        /\ RLess(Zero, getSpringForce)

\* the example of the claim: k = 100, rest length 1, anchors 0.8 apart along
\* the direction (0, 1, 0) give length 0.8 and force 20
C6_Witness ==
    /\ ~m_isFreeEndAttached
    /\ m_coefK = Rat(100, 1)
    /\ m_restLength = Rat(1, 1)
    /\ m_direction = Vec(Zero, Rat(1, 1), Zero)
    /\ AxialDistance = Rat(4, 5)
    /\ getCurrentSpringLength = Rat(4, 5)
    /\ getSpringForce = Rat(20, 1)

\* C7: with the free end not attached the spring force is never negative, so
\* the assertion of getSpringForce never fails.
C7_FixedEndForceNonNegative ==
    /\ ~m_isFreeEndAttached => RLeq(Zero, getSpringForce)
    /\ SpringForceAssertion
    /\ last # "assertion_failed"

\* a fixed-end spring stepped while compressed, pushing back
C7_Witness ==
    /\ ~m_isFreeEndAttached
    /\ last = "ok"
    /\ RLess(Zero, getSpringForce)

\* C8: a step call with dt > 0 ends with the fatal runtime error exactly when
\* the spring length after the force was applied is <= 0.
C8_FatalIffLengthNotPositive ==
    SteppedNow => (last = "runtime_error" <=> RLeq(getCurrentSpringLength, Zero))

\* a step ended fatally on a spring whose rest length is positive
C8_Witness ==
    /\ last = "runtime_error"
    /\ RLess(Zero, m_restLength)
    /\ getCurrentSpringLength = Zero

\* C9: with the free end not attached, the force magnitude a step applies
\* (spring force plus damping force) is >= 0, and with the axial distance at
\* or beyond the rest length the impulses applied are zero.  Stated for
\* anchors that are apart, where the impulse is a number.
C9_FixedEndOnlyPushes ==
    (~m_isFreeEndAttached /\ SteppedNow /\ getCurrentAnchorDistance # Zero) =>
        /\ RLeq(Zero, RAdd(getSpringForce, m_dampingForce))
        /\ RLeq(m_restLength, AxialDistance) =>
               \A i \in ImpulsesOn(1) \cup ImpulsesOn(2) : calls[i].impulse = ZeroVec

\* C10: when a step call with dt > 0 completes and the step call with dt > 0
\* before it completed too, the velocity is the difference of the spring
\* lengths the two calls saw, divided by dt, and the damping force is
\* -d * velocity.
C10_VelocityIsLengthDifferenceOverDt ==
    [][(last' = "ok" /\ seen.completed /\ seen'.completed) =>
          /\ m_velocity' = RDiv(RSub(seen'.length, seen.length), seen'.dt)
          /\ m_dampingForce' = RMul(RNeg(m_coefD), m_velocity')]_vars

\* the example of the claim: lengths 0.8 then 0.7, dt = 0.01 and d = 5 give
\* velocity -10 and damping force 50
C10_Witness ==
    /\ last = "ok"
    /\ seen.completed
    /\ seen.dt = Rat(1, 100)
    /\ seen.length = Rat(7, 10)
    /\ m_coefD = Rat(5, 1)
    /\ m_velocity = Rat(-10, 1)
    /\ m_dampingForce = Rat(50, 1)

\* C11: for fixed stiffness and rest length the spring force does not increase
\* with the spring length: of two geometries of the same spring, the one with
\* the greater or equal length has the smaller or equal force, under both
\* free-end policies.
C11_ForceNonIncreasingInLength ==
    seen.stepped =>
        /\ RLeq(seen.length, getCurrentSpringLength) => RLeq(getSpringForce, seen.force)
        /\ RLeq(getCurrentSpringLength, seen.length) => RLeq(seen.force, getSpringForce)

\* after a step at one length the anchors moved to a strictly greater length,
\* and the force there is strictly smaller
C11_Witness ==
    /\ last = "engine"
    /\ seen.stepped
    /\ RLess(seen.length, getCurrentSpringLength)
    /\ RLess(getSpringForce, seen.force)

\* C12: in a step call every impulse on a body comes after an activate call on
\* that same body made earlier in the same step, and both bodies are awake
\* when the step returns or throws.
C12_ActivatedBeforeImpulse ==
    /\ \A i \in 1..Len(calls) :
          calls[i].op = "applyImpulse" =>
              \E j \in 1..(i - 1) :
                  calls[j].op = "activate" /\ calls[j].body = calls[i].body
    /\ SteppedNow => \A b \in Bodies : active[b] /\ ImpulsesOn(b) # {}

\* a step applied its impulses to both bodies
C12_Witness ==
    /\ last = "ok"
    /\ ImpulsesOn(1) # {}
    /\ ImpulsesOn(2) # {}
    /\ \A b \in Bodies : active[b]

\* the vector from anchor 1 to anchor 2
Separation == VSub(getWorldPosition(anchor2), getWorldPosition(anchor1))

C14_ImpulseIsForceTimesDt ==
    [][last' \in {"ok", "runtime_error"} =>
          LET dt == seen'.dt
              length == getCurrentSpringLength
              springForce == RMul(RNeg(m_coefK), RSub(length, m_restLength))
              dampingForce == RMul(RNeg(m_coefD), RDiv(RSub(length, m_prevLength), dt))
              expected == VScale(VScale(getAnchorDirectionUnitVector,
                                        RAdd(springForce, dampingForce)), dt)
          IN  /\ \E i \in 1..Len(calls') :
                    calls'[i].op = "applyImpulse" /\ calls'[i].body = 1
              /\ \A i \in 1..Len(calls') :
                    (calls'[i].op = "applyImpulse" /\ calls'[i].body = 1) =>
                        calls'[i].impulse = expected]_vars

\* a step of a damped spring with an oblique direction vector applied a
\* non-zero impulse made of a spring part and a damping part
C14_Witness ==
    /\ last = "ok"
    /\ m_direction = Vec(Rat(3, 5), Rat(4, 5), Zero)
    /\ m_dampingForce # Zero
    /\ getSpringForce # Zero
    /\ \E i \in ImpulsesOn(1) :
          VIsFinite(calls[i].impulse) /\ calls[i].impulse # ZeroVec

\* C15: after a step call with dt > 0 that completes, previousLength is the
\* spring length that step computed (the rest length when the spring is slack
\* with the free end not attached, not the raw anchor separation), and it
\* keeps that value until the next step call, wherever the anchors move.
C15_PrevLengthIsStepLength ==
    /\ last = "ok" => m_prevLength = getCurrentSpringLength
    /\ seen.completed => m_prevLength = seen.length

\* a fixed-end spring stepped while slack, with the anchors further apart than
\* the rest length, and the anchors have moved since
C15_Witness ==
    /\ seen.completed
    /\ last = "engine"
    /\ ~m_isFreeEndAttached
    /\ RLess(m_restLength, VLength(VSub(seen.pos[2], seen.pos[1])))
    /\ m_prevLength = m_restLength
    /\ getCurrentSpringLength # m_prevLength

\* C16: a step call with dt > 0 checks the class invariant at its start, before
\* any body is activated or struck, and again at its end.
C16_InvariantCheckedAtEntryAndExit ==
    last = "ok" =>
        /\ \E i \in 1..Len(asserts) :
              asserts[i].check = "invariant" /\ asserts[i].after = 0
        /\ \E i \in 1..Len(asserts) :
              asserts[i].check = "invariant" /\ asserts[i].after = Len(calls)

\* C17: no step call, however it ends, changes stiffness, damping, rest length,
\* direction, the free-end flag, the anchors or the anchors' world positions;
\* on the bodies it does nothing but activate them and apply impulses.
C17_StepChangesOnlyHistory ==
    [][last' \in {"ok", "runtime_error", "invalid_argument", "assertion_failed"} =>
          /\ UNCHANGED <<m_coefK, m_coefD, m_restLength, m_direction,
                         m_isFreeEndAttached, m_anchors, worldPos>>
          /\ \A b \in Bodies : active[b] => active'[b]
          /\ \A i \in 1..Len(calls') : calls'[i].op \in {"activate", "applyImpulse"}]_vars

\* a step changed previousLength, velocity and dampingForce and woke the bodies
C17_Witness ==
    /\ last = "ok"
    /\ m_prevLength # m_restLength
    /\ m_velocity # Zero
    /\ m_dampingForce # Zero
    /\ Len(calls) = 4

\* C18: the spring length and the spring force (and with them the mode,
\* Compressed when the length is below the rest length and Slack otherwise)
\* depend on the current anchor positions and the parameters only: whenever the
\* anchors are where the latest step with dt > 0 found them, length and force
\* are what that step saw before it rewrote previousLength, velocity and
\* dampingForce, whatever has happened since.
C18_LengthAndForceFromGeometryOnly ==
    (seen.stepped /\ worldPos = seen.pos) =>
        /\ getCurrentSpringLength = seen.length
        /\ getSpringForce = seen.force

\* the anchors are where a step found them, and that step changed the history
C18_Witness ==
    /\ seen.stepped
    /\ worldPos = seen.pos
    /\ last = "ok"
    /\ m_velocity # Zero
    /\ ~m_isFreeEndAttached
    /\ RLess(getCurrentSpringLength, m_restLength)

\* C19: a step with dt > 0 that ends in the fatal-length error is not rolled
\* back: both bodies have been activated and struck, and previousLength holds
\* the step's spring length (<= 0); and such a step can leave previousLength
\* below 0: a free-end-attached spring whose second anchor lies behind the first
\* along the direction (axial distance < 0) ends its step in the fatal-length
\* error with previousLength < 0.
C19_FatalStepNotRolledBack ==
    /\ last = "runtime_error" =>
           /\ Len(calls) = 4
           /\ \A b \in Bodies : active[b] /\ ImpulsesOn(b) # {}
           /\ m_prevLength = getCurrentSpringLength
           /\ RLeq(m_prevLength, Zero)
    /\ (SteppedNow /\ m_isFreeEndAttached /\ RLess(AxialDistance, Zero)) =>
           /\ last = "runtime_error"
           /\ RLess(m_prevLength, Zero)

\* a fatal step did strike both bodies and overwrite previousLength, with 0
C19_Witness ==
    /\ last = "runtime_error"
    /\ Len(calls) = 4
    /\ \A b \in Bodies : active[b]
    /\ m_prevLength = Zero
    /\ m_velocity # Zero
    /\ invariant

\* C20: a spring with rest length 0 and the free end not attached satisfies the
\* class invariant, its spring length is never above 0, and every step call on
\* it with dt > 0 ends in the fatal-length error, wherever the anchors are.
C20_ZeroRestLengthFixedEndAlwaysFatal ==
    (~m_isFreeEndAttached /\ m_restLength = Zero) =>
        /\ invariant
        /\ RLeq(getCurrentSpringLength, Zero)
        /\ last \notin {"ok", "assertion_failed"}
        /\ SteppedNow => last = "runtime_error"

\* such a spring, its anchors apart, was stepped and the step ended fatally
C20_Witness ==
    /\ ~m_isFreeEndAttached
    /\ m_restLength = Zero
    /\ last = "runtime_error"
    /\ getCurrentAnchorDistance # Zero
    /\ seen.stepped
    /\ RLess(Zero, seen.dt)

\* the index of the latest onSetup call that was not aborted (0: none)
LastSetup ==
    LET done == {i \in 1..Len(notified) :
                    /\ notified[i].op = "onSetup"
                    /\ ~(i = Len(notified) /\ onLast = "setup_aborted")}
    IN  IF done = {} THEN 0 ELSE CHOOSE i \in done : \A j \in done : j <= i
\* the sum of the dt > 0 among the calls from..to, in the order they were made
RECURSIVE SumOfPositiveDts(_, _)
SumOfPositiveDts(from, to) ==
    IF to < from THEN Zero
    ELSE RAdd(SumOfPositiveDts(from, to - 1),
              IF notified[to].op = "onStep" /\ RLess(Zero, notified[to].dt)
              THEN notified[to].dt ELSE Zero)

\* C21: the controller's total time is the sum of the dt > 0 of the onStep
\* calls made since the latest onSetup (since construction when there was
\* none); an onStep call with dt <= 0, and no other, ends with the
\* invalid-argument error, and right after an onSetup the total time is 0.
C21_TotalTimeIsSumOfPositiveDts ==
    /\ m_totalTime = SumOfPositiveDts(LastSetup + 1, Len(notified))
    /\ onLast = "setup" => m_totalTime = Zero
    /\ onLast = "invalid_argument" =>
           /\ notified[Len(notified)].op = "onStep"
           /\ RLeq(notified[Len(notified)].dt, Zero)
    /\ onLast \in {"ok", "step_aborted"} =>
           /\ notified[Len(notified)].op = "onStep"
           /\ RLess(Zero, notified[Len(notified)].dt)

\* time was accumulated, reset by onSetup, accumulated again, and the latest
\* onStep call was rejected
C21_Witness ==
    /\ onLast = "invalid_argument"
    /\ Len(notified) = 4
    /\ notified[1].op = "onStep" /\ RLess(Zero, notified[1].dt)
    /\ notified[2].op = "onSetup"
    /\ notified[3].op = "onStep" /\ RLess(Zero, notified[3].dt)
    /\ notified[3].dt # notified[1].dt
    /\ m_totalTime = notified[3].dt

====
